---- MODULE Spec2Model ----
(***************************************************************************)
(* The Exif (APP1) decoder of exif.py and ifd.py as a state machine.       *)
(*                                                                         *)
(* A byte is an integer 0..255, a bytes object a sequence of bytes, a text *)
(* a sequence of code points.  A caller calls Exif(app1_data); the header  *)
(* is parsed, then one Ifd object is built per directory index, then the   *)
(* object is handed back.  The IfdInfo class attributes live across calls. *)
(***************************************************************************)
EXTENDS Integers, Sequences, FiniteSets, TLC

VARIABLES
    pc,                  \* position of the caller: idle / loop / done / raised
    data,                \* Exif.data: the APP1 payload of the current call
    byte_order,          \* Exif.byte_order: "None", "big" or "little"
    offset,              \* Exif.offset
    ifd_count,           \* Exif.ifd_count
    ifd_fields,          \* Exif.ifd_fields: get_dict_brief() of every Ifd built
    ifds,                \* the Ifd objects built by the loop of Exif.__init__
    idx,                 \* loop variable of Exif.__init__
    err,                 \* the exception that left Exif.__init__, if any
    result,              \* what the caller received: <<>> or <<the Exif object>>
    IfdInfo_instance,    \* IfdInfo._instance: "None" or "IfdInfo"
    IfdInfo_ifd_types,   \* IfdInfo._ifd_types: <<>> (None) or <<the table>>
    IfdInfo_ifd_tags     \* IfdInfo._ifd_tags:  <<>> (None) or <<the table>>

vars == <<pc, data, byte_order, offset, ifd_count, ifd_fields, ifds, idx, err,
          result, IfdInfo_instance, IfdInfo_ifd_types, IfdInfo_ifd_tags>>

exifVars == <<data, byte_order, offset, ifd_count, ifd_fields, ifds, idx, err, result>>
infoVars == <<IfdInfo_instance, IfdInfo_ifd_types, IfdInfo_ifd_tags>>

(***************************************************************************)
(* Bounds of the model.                                                    *)
(***************************************************************************)
\* The longest directory a generated payload declares.
MaxEntries == 2

(***************************************************************************)
(* Python primitives.                                                      *)
(***************************************************************************)
Min(a, b) == IF a <= b THEN a ELSE b

\* s[a:b] for 0 <= a, 0 <= b: indexes past the end are clipped, never an error.
Slice(s, a, b) == SubSeq(s, Min(a, Len(s)) + 1, Min(b, Len(s)))

RECURSIVE Reverse(_)
Reverse(s) == IF s = <<>> THEN <<>> ELSE Append(Reverse(Tail(s)), Head(s))

RECURSIVE BigEndianValue(_)
\* The unsigned big-endian value of a byte string; 0 for the empty string.
BigEndianValue(b) ==
    IF b = <<>> THEN 0
    ELSE BigEndianValue(SubSeq(b, 1, Len(b) - 1)) * 256 + b[Len(b)]

RECURSIVE Pow256(_)
Pow256(n) == IF n = 0 THEN 1 ELSE 256 * Pow256(n - 1)

\* int.from_bytes(b, byteorder=endian, signed=signed)
IntFromBytes(b, endian, signed) ==
    LET be  == IF endian = "big" THEN b ELSE Reverse(b)
    IN  IF b = <<>> THEN 0
        ELSE IF signed /\ be[1] >= 128
             THEN (be[1] - 256) * Pow256(Len(be) - 1) + BigEndianValue(Tail(be))
             ELSE BigEndianValue(be)

RECURSIVE Gcd(_, _)
Gcd(a, b) == IF b = 0 THEN a ELSE Gcd(b, a % b)

\* bytes.decode(encoding='utf-8'): the list of code points, or "error"
\* (UnicodeDecodeError) for a stray continuation byte, an overlong lead (C0,
\* C1), or a two-byte lead without its continuation byte.  Three- and
\* four-byte forms (lead E0 and above) occur in no payload of the model and
\* are reported as errors too.
RECURSIVE Utf8Decode(_)
Utf8Decode(b) ==
    IF b = <<>> THEN [error |-> FALSE, text |-> <<>>]
    ELSE IF b[1] < 128
         THEN LET r == Utf8Decode(Tail(b))
              IN  [error |-> r.error, text |-> <<b[1]>> \o r.text]
    ELSE IF b[1] >= 194 /\ b[1] <= 223 /\ Len(b) >= 2 /\ b[2] >= 128 /\ b[2] <= 191
         THEN LET r == Utf8Decode(SubSeq(b, 3, Len(b)))
              IN  [error |-> r.error,
                   text  |-> <<(b[1] - 192) * 64 + (b[2] - 128)>> \o r.text]
    ELSE [error |-> TRUE, text |-> <<>>]

\* text[:-1]
DropLast(t) == SubSeq(t, 1, Len(t) - 1)

HexDigits == <<"0","1","2","3","4","5","6","7","8","9","A","B","C","D","E","F">>

\* f'{tag_id:04X}' for 0 <= tag_id < 65536: four upper-case hex digits.
HexDigit(d) == HexDigits[d + 1]

Hex04X(n) == << HexDigit((n \div 4096) % 16), HexDigit((n \div 256) % 16),
                HexDigit((n \div 16) % 16),   HexDigit(n % 16) >>

RECURSIVE Str(_)
\* str(n) for n >= 0: the decimal digits.
Str(n) == IF n < 10 THEN <<HexDigit(n)>>
          ELSE Append(Str(n \div 10), HexDigit(n % 10))

(***************************************************************************)
(* The reference tables of ifd.json (the file itself is data, not code):   *)
(* the types of Exif 2.3 with the keys ifd.py reads (name, type, length,   *)
(* signed) and a few tags.                                                 *)
(***************************************************************************)
TypeRow(name, type, length, signed) ==
    [name |-> name, type |-> type, length |-> length, signed |-> signed]

JsonTypes ==
    ( <<"1">>      :> TypeRow("BYTE", "int", 1, FALSE) )      @@
    ( <<"2">>      :> TypeRow("ASCII", "string", 1, FALSE) )  @@
    ( <<"3">>      :> TypeRow("SHORT", "int", 2, FALSE) )     @@
    ( <<"4">>      :> TypeRow("LONG", "int", 4, FALSE) )      @@
    ( <<"5">>      :> TypeRow("RATIONAL", "Fraction", 8, FALSE) ) @@
    ( <<"7">>      :> TypeRow("UNDEFINED", "bytes", 1, FALSE) )   @@
    ( <<"9">>      :> TypeRow("SLONG", "int", 4, TRUE) )      @@
    ( <<"1","0">>  :> TypeRow("SRATIONAL", "Fraction", 8, TRUE) )

JsonTags ==
    ( <<"0","1","0","F">> :> "Make" )        @@
    ( <<"0","1","1","0">> :> "Model" )       @@
    ( <<"0","1","1","2">> :> "Orientation" ) @@
    ( <<"0","1","1","A">> :> "XResolution" ) @@
    ( <<"0","1","1","B">> :> "YResolution" ) @@
    ( <<"0","0","0","0">> :> "GPSVersionID" )

(***************************************************************************)
(* ifd.py: the conversion functions.  Each gives [raised, value]: raised   *)
(* is "None" or the name of the exception the call throws.                 *)
(***************************************************************************)
Returned(v) == [raised |-> "None", value |-> v]
Raised(e)   == [raised |-> e, value |-> <<>>]

bytes_to_bytes(b, endian, signed) == Returned(b)

\* Variant: the byte order is dropped and the default 'big' is used.
bytes_to_int_big(b, endian, signed) == Returned(IntFromBytes(b, "big", signed))

bytes_to_int(b, endian, signed) == Returned(IntFromBytes(b, endian, signed))

RECURSIVE StripNul(_)
\* text.rstrip('\0')
StripNul(t) == IF t # <<>> /\ t[Len(t)] = 0 THEN StripNul(DropLast(t)) ELSE t

\* Variant: only trailing NULs are removed, not the last character.
bytes_to_string_rstrip(b, endian, signed) ==
    LET d == Utf8Decode(b)
    IN  IF d.error THEN Raised("UnicodeDecodeError") ELSE Returned(StripNul(d.text))

bytes_to_string(b, endian, signed) ==
    LET d == Utf8Decode(b)
    IN  IF d.error THEN Raised("UnicodeDecodeError") ELSE Returned(DropLast(d.text))

\* fractions.Fraction(n, d) raises ZeroDivisionError for d = 0 and otherwise
\* stores the pair in lowest terms.
bytes_to_fraction(b, endian, signed) ==
    LET numerator   == IntFromBytes(Slice(b, 0, 4), endian, FALSE)
        denominator == IntFromBytes(Slice(b, 4, 8), endian, FALSE)
        g           == Gcd(numerator, denominator)
    IN  IF denominator = 0 THEN Raised("ZeroDivisionError")
        ELSE Returned([numerator |-> numerator \div g, denominator |-> denominator \div g])

\* Ifd._bytes_to_value: dispatch on the descriptor's 'type'.
bytes_to_value(b, dtype, endian, signed) ==
    CASE dtype = "bytes"    -> bytes_to_bytes(b, endian, signed)
      [] dtype = "string"   -> bytes_to_string(b, endian, signed)
      [] dtype = "int"      -> bytes_to_int(b, endian, signed)
      [] dtype = "Fraction" -> bytes_to_fraction(b, endian, signed)
      [] OTHER              -> Raised("KeyError")

(***************************************************************************)
(* ifd.py: class IfdInfo.                                                  *)
(***************************************************************************)
\* What open(filename) and json.load find: the file as shipped, no file, or a
\* JSON object without the 'tags' key.
Files == {"ok", "missing", "no_tags"}

\* IfdInfo.__new__: the class attributes after the call, and what it raised.
\* _instance is assigned before the file is opened.
IfdInfo_new(instance, types, tags, file) ==
    IF instance = "None"
    THEN CASE file = "ok" ->
                [raised |-> "None", instance |-> "IfdInfo",
                 types |-> <<JsonTypes>>, tags |-> <<JsonTags>>]
           [] file = "missing" ->
                [raised |-> "FileNotFoundError", instance |-> "IfdInfo",
                 types |-> types, tags |-> tags]
           [] OTHER ->
                [raised |-> "KeyError", instance |-> "IfdInfo",
                 types |-> <<JsonTypes>>, tags |-> tags]
    ELSE [raised |-> "None", instance |-> instance, types |-> types, tags |-> tags]

\* IfdInfo.get_ifd_tag_by_id: 'in' on a None table is a TypeError.
get_ifd_tag_by_id(tags, tag_id) ==
    LET hex_nox == Hex04X(tag_id)
    IN  IF tags = <<>> THEN Raised("TypeError")
        ELSE IF hex_nox \notin DOMAIN tags[1] THEN Returned("None")
        ELSE Returned(tags[1][hex_nox])

\* Variant: an absent type id falls back to the BYTE descriptor.
get_ifd_type_by_id_default(types, type_id) ==
    LET str_id == Str(type_id)
    IN  IF types = <<>> THEN Raised("TypeError")
        ELSE IF str_id \notin DOMAIN types[1] THEN Returned(<<types[1][<<"1">>]>>)
        ELSE Returned(<<types[1][str_id]>>)

\* IfdInfo.get_ifd_type_by_id: <<>> stands for None, <<row>> for a descriptor.
get_ifd_type_by_id(types, type_id) ==
    LET str_id == Str(type_id)
    IN  IF types = <<>> THEN Raised("TypeError")
        ELSE IF str_id \notin DOMAIN types[1] THEN Returned(<<>>)
        ELSE Returned(<<types[1][str_id]>>)

(***************************************************************************)
(* ifd.py: class Ifd.                                                      *)
(***************************************************************************)
\* Variant: the threshold test written 'value_size < 4'.
IsInline_strict(value_size) == value_size < 4

\* 'if value_size <= 4': the value sits in the offset field itself.
IsInline(value_size) == value_size <= 4

\* Ifd._read_value_from_offset: [raised, b, value], b being the bytes handed
\* to _bytes_to_value.  A None type_dict cannot be subscripted (TypeError).
read_value_from_offset(type_dict, count, offset_bytes, endian, app1_data) ==
    IF type_dict = <<>> THEN [raised |-> "TypeError", b |-> <<>>, value |-> <<>>]
    ELSE
      LET value_size == count * type_dict[1].length
          off        == IntFromBytes(offset_bytes, endian, FALSE) + 6
          b          == IF IsInline(value_size)
                        THEN Slice(offset_bytes, 0, value_size)
                        ELSE Slice(app1_data, off, off + value_size)
          signed     == type_dict[1].signed
          v          == bytes_to_value(b, type_dict[1].type, endian, signed)
      IN  [raised |-> v.raised, b |-> b, value |-> v.value]

\* Variant: the record after the index-th one is read.
IfdPos_next(index) == 12 * (index + 1) + 16

\* The bytes of the app1_data where the index-th directory record starts.
IfdPos(index) == 12 * index + 16

\* Ifd.__init__: the class attributes after the call, what it raised and where,
\* and the object built ("ifd", meaningful when nothing was raised).
Ifd_init(index, endian, app1_data, instance, types, tags, file) ==
    LET info       == IfdInfo_new(instance, types, tags, file)
        pos        == IfdPos(index)
        tag_int    == IntFromBytes(Slice(app1_data, pos, pos + 2), endian, FALSE)
        tag_name   == get_ifd_tag_by_id(info.tags, tag_int)
        type_int   == IntFromBytes(Slice(app1_data, pos + 2, pos + 4), endian, FALSE)
        type_dict  == get_ifd_type_by_id(info.types, type_int)
        count      == IntFromBytes(Slice(app1_data, pos + 4, pos + 8), endian, FALSE)
        offset_bytes == Slice(app1_data, pos + 8, pos + 12)
        rv         == read_value_from_offset(type_dict.value, count, offset_bytes,
                                             endian, app1_data)
        none       == [endian |-> endian, tag_int |-> 0, tag_name |-> "None",
                       type_int |-> 0, type_dict |-> <<>>, count |-> 0,
                       offset_bytes |-> <<>>, b |-> <<>>, value |-> <<>>]
        out(exc, at, obj) ==
                      [raised |-> exc, at |-> at, ifd |-> obj,
                       instance |-> info.instance, types |-> info.types,
                       tags |-> info.tags]
    IN  IF info.raised # "None" THEN out(info.raised, "IfdInfo.__new__", none)
        ELSE IF tag_name.raised # "None"
             THEN out(tag_name.raised, "get_ifd_tag_by_id", none)
        ELSE IF type_dict.raised # "None"
             THEN out(type_dict.raised, "get_ifd_type_by_id", none)
        ELSE IF rv.raised # "None"
             THEN out(rv.raised, "_read_value_from_offset", none)
        ELSE out("None", "None",
                 [endian |-> endian, tag_int |-> tag_int, tag_name |-> tag_name.value,
                  type_int |-> type_int, type_dict |-> type_dict.value,
                  count |-> count, offset_bytes |-> offset_bytes,
                  b |-> rv.b, value |-> rv.value])

\* Ifd.get_dict_brief
get_dict_brief(ifd) ==
    [tag |-> ifd.tag_name, type |-> ifd.type_dict[1].name, value |-> ifd.value]

(***************************************************************************)
(* exif.py: class ByteOrder and the header part of Exif.__init__.          *)
(***************************************************************************)
\* Variant: an absent key falls back to 'little' instead of None.
get_byte_order_default(two_bytes) ==
    IF two_bytes = <<77, 77>> THEN "big" ELSE "little"

\* ByteOrder.get_byte_order: the dict lookup, None when the key is absent.
get_byte_order(two_bytes) ==
    IF two_bytes = <<77, 77>> THEN "big"
    ELSE IF two_bytes = <<73, 73>> THEN "little"
    ELSE "None"

\* b'Exif\x00\x00'
ExifIdentifier == <<69, 120, 105, 102, 0, 0>>

\* Variant: the offset field stored as read, without the 6 of the identifier.
first_ifd_offset_raw(app1_data, bo) ==
    IntFromBytes(Slice(app1_data, 10, 14), bo, FALSE)

\* self.offset: the TIFF header's offset field, counted from the identifier.
first_ifd_offset(app1_data, bo) ==
    IntFromBytes(Slice(app1_data, 10, 14), bo, FALSE) + 6

\* Exif.__init__ up to the loop: what it raised and the fields it set.
Exif_header(app1_data) ==
    LET exif_identifier == Slice(app1_data, 0, 6)
        bo     == get_byte_order(Slice(app1_data, 6, 8))
        twoA   == IntFromBytes(Slice(app1_data, 8, 10), bo, FALSE)
        off    == first_ifd_offset(app1_data, bo)
        cnt    == IntFromBytes(Slice(app1_data, 14, 16), bo, FALSE)
        out(exc, o, f, c) ==
            [raised |-> exc, byte_order |-> o, offset |-> f, ifd_count |-> c]
    IN  IF exif_identifier # ExifIdentifier
        THEN out("Wrong Exif Identifier", "None", 0, 0)
        ELSE IF bo = "None" THEN out("Wrong byte order", "None", 0, 0)
        ELSE IF twoA # 42 THEN out("Wrong 002A", bo, 0, 0)
        ELSE out("None", bo, off, cnt)

(***************************************************************************)
(* The payloads a caller hands in.  A payload is laid out as a camera      *)
(* writes it: identifier, TIFF header, entry count, the directory records, *)
(* then the value area the indirect entries point into.  Templates give a  *)
(* record's logical content and its bytes in either byte order.            *)
(***************************************************************************)
\* Unsigned v on n bytes in byte order e.
RECURSIVE BigEndianBytes(_, _)
BigEndianBytes(v, n) ==
    IF n = 0 THEN <<>> ELSE Append(BigEndianBytes(v \div 256, n - 1), v % 256)

Enc(v, n, e) == IF e = "big" THEN BigEndianBytes(v, n) ELSE Reverse(BigEndianBytes(v, n))

\* [tag, type, count, indirect, little, big]: little/big are the 4 bytes of the
\* offset field (inline) or the bytes of the value area (indirect).
Tpl(tag, type, count, indirect, little, big) ==
    [tag |-> tag, type |-> type, count |-> count, indirect |-> indirect,
     little |-> little, big |-> big]

Templates ==
    { Tpl(274, 3, 1, FALSE, <<6, 1, 0, 0>>, <<1, 6, 0, 0>>),          \* Orientation SHORT x1
      Tpl(271, 2, 4, FALSE, <<65, 66, 67, 0>>, <<65, 66, 67, 0>>),    \* Make ASCII "ABC\0"
      Tpl(272, 2, 5, TRUE,  <<65, 66, 195, 169, 69>>,
                            <<65, 66, 195, 169, 69>>),                \* Model ASCII x5, no NUL
      Tpl(282, 5, 1, TRUE,  <<144, 0, 0, 0, 2, 0, 0, 0>>,
                            <<0, 0, 0, 144, 0, 0, 0, 2>>),            \* XResolution 144/2
      Tpl(283, 5, 1, TRUE,  <<1, 0, 0, 0, 0, 0, 0, 0>>,
                            <<0, 0, 0, 1, 0, 0, 0, 0>>),              \* YResolution 1/0
      Tpl(51143, 4, 1, FALSE, <<4, 3, 2, 1>>, <<1, 2, 3, 4>>),        \* unknown tag, LONG x1
      Tpl(274, 13, 1, FALSE, <<1, 0, 0, 0>>, <<0, 0, 0, 1>>),         \* unknown type 13
      Tpl(0, 1, 5, TRUE,    <<0, 3, 2, 1, 0>>, <<0, 1, 2, 3, 0>>),    \* BYTE x5
      Tpl(37500, 7, 2, FALSE, <<200, 7, 0, 0>>, <<200, 7, 0, 0>>),    \* UNDEFINED x2
      Tpl(51144, 9, 1, FALSE, <<254, 255, 255, 255>>,
                              <<255, 255, 255, 254>>) }               \* SLONG -2

\* Directories of at most n records.
RECURSIVE Directories(_)
Directories(n) ==
    IF n = 0 THEN {<<>>}
    ELSE Directories(n - 1) \cup
         { Append(d, t) : d \in { x \in Directories(n - 1) : Len(x) = n - 1 },
                          t \in Templates }

TplBytes(t, e) == IF e = "big" THEN t.big ELSE t.little

\* The value area of directory d: the indirect values in directory order.
RECURSIVE ValueArea(_, _)
ValueArea(d, e) ==
    IF d = <<>> THEN <<>>
    ELSE (IF Head(d).indirect THEN TplBytes(Head(d), e) ELSE <<>>) \o ValueArea(Tail(d), e)

\* The records of d[k..]; at is where the next indirect value starts.
RECURSIVE Records(_, _, _, _)
Records(d, k, at, e) ==
    IF k > Len(d) THEN <<>>
    ELSE LET t == d[k]
         IN  Enc(t.tag, 2, e) \o Enc(t.type, 2, e) \o Enc(t.count, 4, e)
             \o (IF t.indirect THEN Enc(at - 6, 4, e) ELSE TplBytes(t, e))
             \o Records(d, k + 1, IF t.indirect THEN at + Len(TplBytes(t, e)) ELSE at, e)

\* The identifier, sound or with its first or its last byte wrong.
Identifiers == { ExifIdentifier, <<101, 120, 105, 102, 0, 0>>, <<69, 120, 105, 102, 0, 1>> }

\* The byte-order marker: that of the encoding, that of the other byte order (so
\* that the constant reads 0x2A00), or no marker at all.
MarkerKinds == {"own", "other", "bad"}

Marker(kind, e) ==
    CASE kind = "bad" -> <<73, 77>>
      [] kind = "own" -> IF e = "big" THEN <<77, 77>> ELSE <<73, 73>>
      [] OTHER        -> IF e = "big" THEN <<73, 73>> ELSE <<77, 77>>

\* How many bytes the end of the payload lacks.
Cuts == {0, 1, 5}

\* The first-IFD offset fields written: 8 as cameras do, and another value.
FirstIfdOffsets == {8, 258}

Payload(ident, kind, e, first, d, cut) ==
    LET full == ident \o Marker(kind, e) \o Enc(42, 2, e) \o Enc(first, 4, e)
                \o Enc(Len(d), 2, e)
                \o Records(d, 1, 16 + 12 * Len(d), e) \o ValueArea(d, e)
    IN  SubSeq(full, 1, Len(full) - cut)

\* Sound headers with every directory and cut; damaged headers and the other
\* first-IFD offset with the short directories.
Payloads ==
    { Payload(ExifIdentifier, "own", e, 8, d, cut) :
          e \in {"little", "big"}, d \in Directories(MaxEntries), cut \in Cuts }
    \cup
    { Payload(p[1], p[2], e, first, d, 0) :
          p \in Identifiers \X MarkerKinds, e \in {"little", "big"},
          first \in FirstIfdOffsets, d \in Directories(1) }

(***************************************************************************)
(* The state machine.                                                      *)
(***************************************************************************)
NoError == [exc |-> "None", at |-> "None"]

Init ==
    /\ pc = "idle"
    /\ data = <<>>
    /\ byte_order = "None"
    /\ offset = 0
    /\ ifd_count = 0
    /\ ifd_fields = <<>>
    /\ ifds = <<>>
    /\ idx = 0
    /\ err = NoError
    /\ result = <<>>
    /\ IfdInfo_instance = "None"
    /\ IfdInfo_ifd_types = <<>>
    /\ IfdInfo_ifd_tags = <<>>

\* Variant: the loop written over range(self.ifd_count - 1).
loop_over_early(i, count) == i >= count - 1

\* 'for idx in range(self.ifd_count)': no turn is left for idx.
loop_over(i, count) == i >= count

\* Exif.get_dict
get_dict == [byte_order |-> byte_order, offset |-> offset,
             ifd_count |-> ifd_count, ifd_fields |-> ifd_fields]

\* Exif(app1_data) is called: the fields are reset and the header is parsed.
ExifInit(app1_data) ==
    LET h == Exif_header(app1_data)
    IN  /\ pc = "idle"
        /\ data' = app1_data
        /\ byte_order' = h.byte_order
        /\ offset' = h.offset
        /\ ifd_count' = h.ifd_count
        /\ ifd_fields' = <<>>
        /\ ifds' = <<>>
        /\ idx' = 0
        /\ result' = <<>>
        /\ IF h.raised # "None"
           THEN pc' = "raised" /\ err' = [exc |-> h.raised, at |-> "Exif.__init__"]
           ELSE pc' = "loop" /\ err' = NoError
        /\ UNCHANGED infoVars

\* One turn of 'for idx in range(self.ifd_count)': Ifd(idx, ...) and the append.
IfdStep(file) ==
    LET r == Ifd_init(idx, byte_order, data, IfdInfo_instance, IfdInfo_ifd_types,
                      IfdInfo_ifd_tags, file)
    IN  /\ pc = "loop"
        /\ ~loop_over(idx, ifd_count)
        /\ IfdInfo_instance' = r.instance
        /\ IfdInfo_ifd_types' = r.types
        /\ IfdInfo_ifd_tags' = r.tags
        /\ IF r.raised # "None"
           THEN /\ pc' = "raised"
                /\ err' = [exc |-> r.raised, at |-> r.at]
                /\ UNCHANGED <<ifds, ifd_fields, idx>>
           ELSE /\ pc' = "loop"
                /\ ifds' = Append(ifds, r.ifd)
                /\ ifd_fields' = Append(ifd_fields, get_dict_brief(r.ifd))
                /\ idx' = idx + 1
                /\ UNCHANGED err
        /\ UNCHANGED <<data, byte_order, offset, ifd_count, result>>

\* The loop is over: Exif.__init__ returns and the caller holds the object.
ExifReturn ==
    /\ pc = "loop"
    /\ loop_over(idx, ifd_count)
    /\ pc' = "done"
    /\ result' = <<get_dict>>
    /\ UNCHANGED <<data, byte_order, offset, ifd_count, ifd_fields, ifds, idx, err>>
    /\ UNCHANGED infoVars

\* The caller is done with the object, or with the exception; the class
\* attributes of IfdInfo stay as they are.
Discard ==
    /\ pc \in {"done", "raised"}
    /\ pc' = "idle"
    /\ data' = <<>>
    /\ byte_order' = "None"
    /\ offset' = 0
    /\ ifd_count' = 0
    /\ ifd_fields' = <<>>
    /\ ifds' = <<>>
    /\ idx' = 0
    /\ err' = NoError
    /\ result' = <<>>
    /\ UNCHANGED infoVars

Next ==
    \/ \E p \in Payloads : ExifInit(p)
    \/ \E f \in Files : IfdStep(f)
    \/ ExifReturn
    \/ Discard

Spec == Init /\ [][Next]_vars

(***************************************************************************)
(* Properties.  They read the payload bytes directly, by position, and     *)
(* compare them with what the decoder stored.                              *)
(***************************************************************************)
\* The unsigned integers at 0-based position p of d, in byte order e.
U16(d, p, e) == IF e = "big" THEN d[p + 1] * 256 + d[p + 2]
                ELSE d[p + 2] * 256 + d[p + 1]

U32(d, p, e) == IF e = "big"
                THEN ((d[p + 1] * 256 + d[p + 2]) * 256 + d[p + 3]) * 256 + d[p + 4]
                ELSE ((d[p + 4] * 256 + d[p + 3]) * 256 + d[p + 2]) * 256 + d[p + 1]

\* Byte width of every type id of the type table.
WidthOf == (1 :> 1) @@ (2 :> 1) @@ (3 :> 2) @@ (4 :> 4) @@ (5 :> 8) @@ (7 :> 1)
           @@ (9 :> 4) @@ (10 :> 8)

\* Where the k-th record (k = 1 for directory index 0) starts, and whether the
\* payload holds all 12 bytes of it.
RecordAt(k) == 16 + 12 * (k - 1)
RecordWhole(k) == Len(data) >= RecordAt(k) + 12

\* count * byte_width of the k-th record, read from the payload.
SizeOnDisk(k) ==
    U32(data, RecordAt(k) + 4, byte_order) * WidthOf[U16(data, RecordAt(k) + 2, byte_order)]

\* The bytes of d from 0-based position at, n of them or as many as d holds.
Available(d, at, n) == IF at >= Len(d) THEN 0 ELSE Min(n, Len(d) - at)
BytesFrom(d, at, n) == [i \in 1..Available(d, at, n) |-> d[at + i]]

\* C1: for every entry built from a whole record, with value_size = count *
\* byte_width: value_size <= 4 (4 included) hands the value decoder the first
\* value_size bytes of the record's offset field, whatever the byte order;
\* value_size >= 5 hands it the payload bytes at (offset field as an unsigned
\* integer in the block's byte order) + 6.
C1_InlineThreshold ==
    \A k \in 1..Len(ifds) :
        RecordWhole(k) =>
            IF SizeOnDisk(k) <= 4
            THEN ifds[k].b = BytesFrom(data, RecordAt(k) + 8, SizeOnDisk(k))
            ELSE ifds[k].b = BytesFrom(data, U32(data, RecordAt(k) + 8, byte_order) + 6,
                                       SizeOnDisk(k))

\* A block was returned that holds an entry of value_size 4 and one of
\* value_size 5 whose five bytes were all in the payload.
C1_Witness ==
    /\ pc = "done"
    /\ \E k, j \in 1..Len(ifds) :
          /\ RecordWhole(k) /\ SizeOnDisk(k) = 4 /\ Len(ifds[k].b) = 4
          /\ RecordWhole(j) /\ SizeOnDisk(j) = 5 /\ Len(ifds[j].b) = 5

\* C2 (as claimed): a returned block holds no indirect entry whose value was
\* decoded from fewer than value_size bytes.
C2_NoShortIndirectValue ==
    pc = "done" =>
        \A k \in 1..Len(ifds) :
            (RecordWhole(k) /\ SizeOnDisk(k) > 4) => Len(ifds[k].b) = SizeOnDisk(k)

\* The header preconditions, read from the payload (10 bytes or more).
IdentifierHolds == /\ data[1] = 69 /\ data[2] = 120 /\ data[3] = 105
                   /\ data[4] = 102 /\ data[5] = 0 /\ data[6] = 0
MarkerHolds     == data[7] = data[8] /\ data[7] \in {73, 77}
ConstantHolds   == U16(data, 8, IF data[7] = 77 THEN "big" ELSE "little") = 42

\* Exif.__init__ raised msg itself: nothing was decoded, nothing is returned.
HeaderRaised(msg) ==
    /\ pc = "raised" /\ err = [exc |-> msg, at |-> "Exif.__init__"]
    /\ idx = 0 /\ ifds = <<>> /\ ifd_fields = <<>> /\ result = <<>>

\* C3: the identifier, the byte-order marker and the constant 0x002A are
\* checked in this order; the first that fails raises its error before any
\* entry is decoded, and a call that raised returns no object.
C3_HeaderChecksInOrder ==
    /\ (pc # "idle" /\ Len(data) >= 10) =>
          /\ ~IdentifierHolds => HeaderRaised("Wrong Exif Identifier")
          /\ (IdentifierHolds /\ ~MarkerHolds) => HeaderRaised("Wrong byte order")
          /\ (IdentifierHolds /\ MarkerHolds /\ ~ConstantHolds) => HeaderRaised("Wrong 002A")
          /\ (IdentifierHolds /\ MarkerHolds /\ ConstantHolds) => err.at # "Exif.__init__"
    /\ pc = "raised" => result = <<>>

\* The constant is wrong under a sound identifier and marker, in a payload
\* that declares entries: the call raised and decoded none of them.
C3_Witness ==
    /\ HeaderRaised("Wrong 002A")
    /\ Len(data) >= 28
    /\ IdentifierHolds /\ MarkerHolds
    /\ data[15] + data[16] > 0

\* The header was accepted.
HeaderPassed == pc \in {"loop", "done"} \/ (pc = "raised" /\ err.at # "Exif.__init__")

\* C4: once the header is accepted, the stored first-IFD offset is the
\* unsigned integer at bytes [10,14) in the block's byte order plus 6 (raw 8
\* gives 14), and every indirect value is read from its pointer plus 6.
C4_RebaseBySix ==
    (HeaderPassed /\ Len(data) >= 14) =>
        /\ offset = U32(data, 10, byte_order) + 6
        /\ U32(data, 10, byte_order) = 8 => offset = 14
        /\ pc = "done" => result[1].offset = U32(data, 10, byte_order) + 6
        /\ \A k \in 1..Len(ifds) :
              (RecordWhole(k) /\ SizeOnDisk(k) > 4 /\ ifds[k].b # <<>>) =>
                  ifds[k].b[1] = data[U32(data, RecordAt(k) + 8, byte_order) + 6 + 1]

\* A returned block whose offset field is not 8 and which holds an indirect
\* entry read whole.
C4_Witness ==
    /\ pc = "done" /\ Len(data) >= 14
    /\ U32(data, 10, byte_order) = 258
    /\ \E k \in 1..Len(ifds) :
          RecordWhole(k) /\ SizeOnDisk(k) > 4 /\ Len(ifds[k].b) = SizeOnDisk(k)

\* The names of the tag and type tables, by integer id.
NameOfTag(id) ==
    CASE id = 271 -> "Make" [] id = 272 -> "Model" [] id = 274 -> "Orientation"
      [] id = 282 -> "XResolution" [] id = 283 -> "YResolution"
      [] id = 0 -> "GPSVersionID" [] OTHER -> "None"

NameOfType(id) ==
    CASE id = 1 -> "BYTE" [] id = 2 -> "ASCII" [] id = 3 -> "SHORT" [] id = 4 -> "LONG"
      [] id = 5 -> "RATIONAL" [] id = 7 -> "UNDEFINED" [] id = 9 -> "SLONG"
      [] id = 10 -> "SRATIONAL" [] OTHER -> "None"

\* C5: a returned block holds entry_count entries, entry_count being the
\* unsigned integer at bytes [14,16), and its k-th entry is the decoding of
\* directory index k.
C5_EntriesInDirectoryOrder ==
    pc = "done" =>
        /\ Len(data) >= 16 => ifd_count = U16(data, 14, byte_order)
        /\ Len(ifd_fields) = ifd_count
        /\ result[1].ifd_count = ifd_count
        /\ Len(result[1].ifd_fields) = ifd_count
        /\ \A k \in 1..ifd_count :
              RecordWhole(k) =>
                 /\ result[1].ifd_fields[k].tag =
                        NameOfTag(U16(data, RecordAt(k), byte_order))
                 /\ result[1].ifd_fields[k].type =
                        NameOfType(U16(data, RecordAt(k) + 2, byte_order))
                 /\ ifds[k].tag_int = U16(data, RecordAt(k), byte_order)
                 /\ ifds[k].count = U32(data, RecordAt(k) + 4, byte_order)
                 /\ result[1].ifd_fields[k].value = ifds[k].value

\* A returned block of two entries with different tags.
C5_Witness ==
    /\ pc = "done" /\ ifd_count = 2 /\ Len(data) >= 40
    /\ result[1].ifd_fields[1].tag # result[1].ifd_fields[2].tag

KnownTagIds == {0, 271, 272, 274, 282, 283}

TablesLoaded == IfdInfo_ifd_types # <<>> /\ IfdInfo_ifd_tags # <<>>

\* C6: a tag id absent from the tag table gives the name None and never stops
\* the decode; a type id absent from the type table stops it, whichever
\* record holds it, and no block is returned.
C6_UnknownTagSoftUnknownTypeFatal ==
    /\ \A k \in 1..Len(ifds) :
          RecordWhole(k) =>
             /\ U16(data, RecordAt(k) + 2, byte_order) \in DOMAIN WidthOf
             /\ U16(data, RecordAt(k), byte_order) \notin KnownTagIds =>
                   (ifds[k].tag_name = "None" /\ ifd_fields[k].tag = "None")
    /\ (/\ pc = "raised" /\ TablesLoaded
        /\ err.at \notin {"Exif.__init__", "IfdInfo.__new__"}
        /\ RecordWhole(idx + 1)) =>
          /\ Len(ifds) = idx
          /\ result = <<>>
          /\ IF U16(data, RecordAt(idx + 1) + 2, byte_order) \in DOMAIN WidthOf
             THEN err.exc \in {"ZeroDivisionError", "UnicodeDecodeError"}
             ELSE err = [exc |-> "TypeError", at |-> "_read_value_from_offset"]

\* The first record has an unknown tag and was decoded; the second has an
\* unknown type and stopped the decode.
C6_Witness ==
    /\ pc = "raised" /\ idx = 1 /\ Len(ifds) = 1 /\ RecordWhole(2)
    /\ ifds[1].tag_name = "None"
    /\ U16(data, RecordAt(1), byte_order) \notin KnownTagIds
    /\ U16(data, RecordAt(2) + 2, byte_order) \notin DOMAIN WidthOf
    /\ result = <<>>

\* Type ids whose values are integers, and those whose values are rationals.
IntTypeIds      == {1, 3, 4, 9}
RationalTypeIds == {5, 10}

\* The byte ranges <<start, length>> (0-based start) that hold one multi-byte
\* number each in a little-endian payload d of n records: the constant, the
\* first-IFD offset, the entry count; per record the tag, the type, the count,
\* and either the offset field (a pointer) or the bytes of an inline integer;
\* in the value area every indirect integer and every half of a rational.
NumberRanges(d, n) ==
    {<<8, 2>>, <<10, 4>>, <<14, 2>>}
    \cup UNION { LET p    == 16 + 12 * (k - 1)
                     tid  == U16(d, p + 2, "little")
                     cnt  == U32(d, p + 4, "little")
                     size == cnt * WidthOf[tid]
                     ptr  == U32(d, p + 8, "little") + 6
                 IN  {<<p, 2>>, <<p + 2, 2>>, <<p + 4, 4>>}
                     \cup (IF size <= 4
                           THEN (IF tid \in IntTypeIds /\ size > 0
                                 THEN {<<p + 8, size>>} ELSE {})
                           ELSE {<<p + 8, 4>>}
                                \cup (IF tid \in IntTypeIds THEN {<<ptr, size>>} ELSE {})
                                \cup (IF tid \in RationalTypeIds
                                      THEN { <<ptr + 4 * j, 4>> : j \in 0..(2 * cnt - 1) }
                                      ELSE {}))
               : k \in 1..n }

\* Every indirect value of the little-endian payload d lies whole in the value
\* area behind the n records, and no two number ranges overlap.
WellFormed(d, n) ==
    /\ Len(d) >= 16 + 12 * n
    /\ \A k \in 1..n :
          LET p    == 16 + 12 * (k - 1)
              tid  == U16(d, p + 2, "little")
              size == U32(d, p + 4, "little") * WidthOf[tid]
              ptr  == U32(d, p + 8, "little") + 6
          IN  /\ tid \in DOMAIN WidthOf
              /\ size > 4 => (ptr >= 16 + 12 * n /\ ptr + size <= Len(d))
    /\ \A r, q \in NumberRanges(d, n) :
          r # q => (r[1] + r[2] <= q[1] \/ q[1] + q[2] <= r[1])

\* The payload with marker 4D4D and the bytes of every number range reversed.
AsBigEndian(d, n) ==
    [ i \in 1..Len(d) |->
        IF i \in {7, 8} THEN 77
        ELSE IF \E r \in NumberRanges(d, n) : r[1] < i /\ i <= r[1] + r[2]
             THEN LET r == CHOOSE q \in NumberRanges(d, n) : q[1] < i /\ i <= q[1] + q[2]
                  IN  d[2 * r[1] + r[2] + 1 - i]
             ELSE d[i] ]

\* C7: a well-formed block with marker 4949 and the same block written with
\* marker 4D4D decode to the same first-IFD offset, the same entry count and,
\* entry by entry, the same tag id, type id, count and integer value.
C7_ByteOrderRoundTrip ==
    (pc = "done" /\ byte_order = "little" /\ WellFormed(data, ifd_count)) =>
        LET mirrored == AsBigEndian(data, ifd_count)
            h        == Exif_header(mirrored)
        IN  /\ h.raised = "None"
            /\ h.byte_order = "big"
            /\ h.offset = offset
            /\ h.ifd_count = ifd_count
            /\ \A k \in 1..ifd_count :
                  LET r == Ifd_init(k - 1, "big", mirrored, IfdInfo_instance,
                                    IfdInfo_ifd_types, IfdInfo_ifd_tags, "ok")
                  IN  /\ r.raised = "None"
                      /\ r.ifd.tag_int = ifds[k].tag_int
                      /\ r.ifd.type_int = ifds[k].type_int
                      /\ r.ifd.count = ifds[k].count
                      /\ ifds[k].type_int \in IntTypeIds => r.ifd.value = ifds[k].value

\* A returned little-endian block with an inline integer of two bytes and an
\* indirect integer, both differing from their byte-reversed reading.
C7_Witness ==
    /\ pc = "done" /\ byte_order = "little" /\ WellFormed(data, ifd_count)
    /\ \E k, j \in 1..Len(ifds) :
          /\ ifds[k].type_int = 3 /\ ifds[k].b = <<6, 1>> /\ ifds[k].value = 262
          /\ ifds[j].type_int = 1 /\ Len(ifds[j].b) = 5

\* C8: the value of a 'string' entry is the text of the selected bytes less
\* its last character, whatever that character is; n >= 1 characters give
\* n - 1, no character gives the empty text, 'ABC\0' gives 'ABC'.
C8_StringDropsLastCharacter ==
    \A k \in 1..Len(ifds) :
        ifds[k].type_dict[1].type = "string" =>
            LET text == Utf8Decode(ifds[k].b).text
            IN  /\ Len(ifds[k].value) = (IF Len(text) >= 1 THEN Len(text) - 1 ELSE 0)
                /\ \A i \in 1..Len(ifds[k].value) : ifds[k].value[i] = text[i]
                /\ ifds[k].b = <<65, 66, 67, 0>> => ifds[k].value = <<65, 66, 67>>

\* 'ABC\0' gave 'ABC', and a text whose last character is not NUL lost it too.
C8_Witness ==
    \E k, j \in 1..Len(ifds) :
        /\ ifds[k].type_dict[1].type = "string"
        /\ ifds[k].b = <<65, 66, 67, 0>> /\ ifds[k].value = <<65, 66, 67>>
        /\ ifds[j].type_dict[1].type = "string"
        /\ ifds[j].b = <<65, 66, 195, 169, 69>> /\ ifds[j].value = <<65, 66, 233>>

\* C9 (as claimed): a rational whose denominator bytes decode to zero never
\* makes the decode end in the arithmetic fault of the division.
C9_ZeroDenominatorIsNoFault ==
    ~(pc = "raised" /\ err.exc = "ZeroDivisionError")

\* C10 (as claimed): whatever happened to earlier loads of the data file, no
\* lookup is made on a table that is still None.
C10_LookupsReadLoadedTables ==
    ~(/\ pc = "raised"
      /\ err.exc = "TypeError"
      /\ err.at \in {"get_ifd_tag_by_id", "get_ifd_type_by_id"})

\* C11 (as claimed): no block is returned for a payload shorter than the 16
\* bytes of identifier, TIFF header and entry count, or shorter than those
\* plus 12 bytes per declared entry.
C11_NoBlockFromShortPayload ==
    pc = "done" => (Len(data) >= 16 /\ Len(data) >= 16 + 12 * ifd_count)

\* C12: whatever the first-IFD offset field holds, the entry of directory
\* index i is built from the 12 bytes at 16 + 12*i: tag id from bytes [0,2),
\* type id from [2,4), count from [4,8), all unsigned in the block's byte
\* order, and the offset field is bytes [8,12) as they stand.
C12_RecordsAtFixedPositions ==
    \A k \in 1..Len(ifds) :
        RecordWhole(k) =>
            /\ ifds[k].tag_int = U16(data, RecordAt(k), byte_order)
            /\ ifds[k].type_int = U16(data, RecordAt(k) + 2, byte_order)
            /\ ifds[k].count = U32(data, RecordAt(k) + 4, byte_order)
            /\ Len(ifds[k].offset_bytes) = 4
            /\ \A i \in 1..4 : ifds[k].offset_bytes[i] = data[RecordAt(k) + 8 + i]

\* A block whose first-IFD offset field holds 258, not 8: its entry of index 0
\* was built from the record at byte 16 all the same.
C12_Witness ==
    /\ Len(data) >= 28 /\ Len(ifds) >= 1
    /\ U32(data, 10, byte_order) = 258
    /\ offset = 264
    /\ ifds[1].tag_int = 274 /\ ifds[1].offset_bytes = <<1, 6, 0, 0>>

====
